---- MODULE Spec2Model ----
(***************************************************************************)
(* Model of the schelper_server job runner (app/worker/worker.py,          *)
(* app/routers/jobs.py) and of the task/subtask store                      *)
(* (app/routers/tasks.py, app/models.py).                                  *)
(*                                                                         *)
(* Every database statement that is followed by an await in the source is  *)
(* a separate step of the process that runs it, so that the steps of       *)
(* several workers (or several requests) interleave exactly where the      *)
(* coroutines of the source can be suspended.                              *)
(***************************************************************************)
EXTENDS Integers, Sequences, FiniteSets, TLC

(***************************************************************************)
(* Bounds of the model.                                                    *)
(***************************************************************************)
NumWorkers == 2
MaxJobs == 2
NumClients == 2     \* requests that can be in flight at once
MaxSubs == 2        \* subtask titles in one request body
MaxCalls == 3       \* task/subtask requests in one run
MaxSeqCalls == 2    \* requests in one run of the sequential specification
MaxStatuses == 3    \* subtask statuses in one collection given to the aggregator
MaxBlocks == 2      \* subject blocks in one response of the extraction collaborator
MaxImports == 1     \* import jobs one worker runs the handler for
NumUsers == 2       \* registered users

Workers == 1..NumWorkers

(***************************************************************************)
(* Job store (app/models.py, class Job) and the worker's registry.         *)
(***************************************************************************)
\* The values of the JobStatus enum used by worker.py and jobs.py.
JobStatusValues == {"pending", "running", "done", "failed"}

\* Job types a client can submit; only the first one has a handler.
JobTypes == {"import_homework", "summary"}

\* worker.py: JOB_HANDLERS, the keys of the registry.
JOB_HANDLERS == {"import_homework"}

\* The exceptions a handler can raise, named by their message str(e).
HandlerErrors == {"No homework content provided", "404: Subject not found"}

\* The JSON column Job.result: the keys of the stored dict and its payload.
\* A NULL column has no keys.
NoResult == [keys |-> {}, val |-> "null"]
ResultOf(key, v) == [keys |-> {key}, val |-> v]

\* What the registered handler returns: {"tasks_created": n}.
HandlerValue == "tasks_created"

VARIABLES
    jobs,       \* the jobs table: a sequence of rows, in creation order
    wpc,        \* wpc[w]: where worker w stands in worker_loop/_process_job
    wjob,       \* wjob[w]: the id of the job dict worker w fetched (0: none)
    wexc        \* wexc[w]: the exception worker w caught ("none": none)

jobVars == <<jobs, wpc, wjob, wexc>>

VARIABLES
    tasks,      \* the tasks table, each row with its subtasks rows (in
                \* insertion order) under the field subtasks
    cpc,        \* cpc[c]: where client c's create_task call stands
    creq,       \* creq[c]: the locals of that call
    cres,       \* cres[c]: what c's last finished create_task returned
    prev,       \* history: the last finished request and its outcome
    calls       \* the number of requests started so far

taskVars == <<tasks, cpc, creq, cres, prev, calls>>

VARIABLES
    imp         \* the call of process_import_homework in progress, if any

VARIABLES
    users,      \* the users table: users[u] is the role of the user with id u
    resp        \* the response to the last request of the users and jobs
                \* routers

apiVars == <<users, resp>>

JobIds == 1..Len(jobs)

\* The rows a SELECT ... WHERE status = 'pending' sees.
PendingJobs == {j \in JobIds : jobs[j].status = "pending"}

\* ORDER BY created_at LIMIT 1: the rows the query may return, those pending
\* rows that no pending row precedes in created_at. Rows with equal
\* created_at come in an order the database does not specify.
OldestPending ==
    {j \in PendingJobs :
        \A k \in PendingJobs : jobs[j].created_at <= jobs[k].created_at}

\* A variant of _update_status that leaves the result column alone when no
\* result is passed.
_update_status_keep_result(j, status, result) ==
    jobs' = [jobs EXCEPT ![j].status = status,
                         ![j].result = IF result = NoResult THEN @ ELSE result]

\* worker.py: _update_status. An unconditional UPDATE ... WHERE id = job.id
\* that always writes status and result together, then commits.
_update_status(j, status, result) ==
    jobs' = [jobs EXCEPT ![j].status = status, ![j].result = result]

\* models.py: Job.created_at, server_default now(). The clock the database
\* reads has a resolution (one second with the default SQLite URL): between
\* two INSERTs it has advanced (1) or not (0).
Ticks == {0, 1}

\* jobs.py: create_job by the user with id user. A new row owned by the
\* user, status pending, result NULL, created_at the database's current time.
create_job(user, type, tick) ==
    /\ Len(jobs) < MaxJobs
    /\ jobs' = Append(jobs, [user_id |-> user, type |-> type,
                             status |-> "pending",
                             result |-> NoResult,
                             created_at |->
                                IF jobs = <<>> THEN 1
                                ELSE jobs[Len(jobs)].created_at + tick])
    /\ UNCHANGED <<wpc, wjob, wexc>>
    /\ UNCHANGED <<taskVars, imp, apiVars>>

\* worker.py: _fetch_next_job, a job was found. A plain SELECT: the row is
\* neither locked nor changed, the worker keeps a dict copy of it.
_fetch_next_job(w) ==
    /\ wpc[w] = "poll"
    /\ PendingJobs # {}
    /\ \E j \in OldestPending : wjob' = [wjob EXCEPT ![w] = j]
    /\ wpc' = [wpc EXCEPT ![w] = "fetched"]
    /\ UNCHANGED <<jobs, wexc>>
    /\ UNCHANGED <<taskVars, imp, apiVars>>

\* worker.py: worker_loop, no pending row: sleep and poll again.
worker_sleep(w) ==
    /\ wpc[w] = "poll"
    /\ PendingJobs = {}
    /\ UNCHANGED <<jobVars, imp, apiVars>>
    /\ UNCHANGED <<taskVars, imp, apiVars>>

\* A variant of process_unknown_type that returns without recording the
\* failure.
process_unknown_type_unrecorded(w) ==
    /\ wpc[w] = "fetched"
    /\ jobs[wjob[w]].type \notin JOB_HANDLERS
    /\ wpc' = [wpc EXCEPT ![w] = "poll"]
    /\ wjob' = [wjob EXCEPT ![w] = 0]
    /\ UNCHANGED <<jobs, wexc>>
    /\ UNCHANGED <<taskVars, imp, apiVars>>

\* worker.py: _process_job, lines 59-63: no handler for the job's type.
\* The job is marked failed directly and _process_job returns.
process_unknown_type(w) ==
    /\ wpc[w] = "fetched"
    /\ jobs[wjob[w]].type \notin JOB_HANDLERS
    /\ _update_status(wjob[w], "failed", ResultOf("error", "Unknown job type"))
    /\ wpc' = [wpc EXCEPT ![w] = "poll"]
    /\ wjob' = [wjob EXCEPT ![w] = 0]
    /\ UNCHANGED wexc
    /\ UNCHANGED <<taskVars, imp, apiVars>>

\* worker.py: _process_job, lines 65-72: update -> RUNNING (result defaults
\* to None) whatever the row's current status is, then the handler is called.
process_start(w) ==
    /\ wpc[w] = "fetched"
    /\ jobs[wjob[w]].type \in JOB_HANDLERS
    /\ _update_status(wjob[w], "running", NoResult)
    /\ wpc' = [wpc EXCEPT ![w] = "handler"]
    /\ UNCHANGED <<wjob, wexc>>
    /\ UNCHANGED <<taskVars, imp, apiVars>>

\* worker.py: line 72, the awaited handler returns a value.
handler_returns(w) ==
    /\ wpc[w] = "handler"
    /\ wpc' = [wpc EXCEPT ![w] = "returned"]
    /\ UNCHANGED <<jobs, wjob, wexc>>
    /\ UNCHANGED <<taskVars, imp, apiVars>>

\* worker.py: line 72 and 79, the awaited handler raises an Exception e.
handler_raises(w, e) ==
    /\ wpc[w] = "handler"
    /\ wpc' = [wpc EXCEPT ![w] = "raised"]
    /\ wexc' = [wexc EXCEPT ![w] = e]
    /\ UNCHANGED <<jobs, wjob>>
    /\ UNCHANGED <<taskVars, imp, apiVars>>

\* A variant of process_done that goes back to polling without the update.
process_done_unrecorded(w) ==
    /\ wpc[w] = "returned"
    /\ wpc' = [wpc EXCEPT ![w] = "poll"]
    /\ wjob' = [wjob EXCEPT ![w] = 0]
    /\ UNCHANGED <<jobs, wexc>>
    /\ UNCHANGED <<taskVars, imp, apiVars>>

\* worker.py: line 75, update -> DONE with {"result": result}.
process_done(w) ==
    /\ wpc[w] = "returned"
    /\ _update_status(wjob[w], "done", ResultOf("result", HandlerValue))
    /\ wpc' = [wpc EXCEPT ![w] = "poll"]
    /\ wjob' = [wjob EXCEPT ![w] = 0]
    /\ UNCHANGED wexc
    /\ UNCHANGED <<taskVars, imp, apiVars>>

\* Mutant of ErrorResult: the message of the exception is dropped.
ErrorResult_NoMessage(e) == ResultOf("error", "Job failed")

\* What the except branch stores for exception e: {"error": str(e)}.
ErrorResult(e) == ResultOf("error", e)

\* Mutant of process_failed: the except branch re-raises after recording the
\* failure, which ends worker_loop.
process_failed_reraise(w) ==
    /\ wpc[w] = "raised"
    /\ _update_status(wjob[w], "failed", ErrorResult(wexc[w]))
    /\ wpc' = [wpc EXCEPT ![w] = "crashed"]
    /\ UNCHANGED <<wjob, wexc>>
    /\ UNCHANGED <<taskVars, imp, apiVars>>

\* worker.py: lines 79-81, update -> FAILED with {"error": str(e)}.
process_failed(w) ==
    /\ wpc[w] = "raised"
    /\ _update_status(wjob[w], "failed", ErrorResult(wexc[w]))
    /\ wpc' = [wpc EXCEPT ![w] = "poll"]
    /\ wjob' = [wjob EXCEPT ![w] = 0]
    /\ wexc' = [wexc EXCEPT ![w] = "none"]
    /\ UNCHANGED <<taskVars, imp, apiVars>>

\* worker.py: worker_loop, the process of worker w dies while it holds a
\* job (between two awaits of _process_job) and is started again: the new
\* process polls and knows nothing of the job, whose row stays as it is.
worker_crash(w) ==
    /\ wpc[w] # "poll"
    /\ wpc' = [wpc EXCEPT ![w] = "poll"]
    /\ wjob' = [wjob EXCEPT ![w] = 0]
    /\ wexc' = [wexc EXCEPT ![w] = "none"]
    /\ UNCHANGED jobs
    /\ UNCHANGED <<taskVars, imp, apiVars>>

\* One step of worker w's loop.
worker_loop(w) ==
    \/ _fetch_next_job(w)
    \/ worker_sleep(w)
    \/ process_unknown_type(w)
    \/ process_start(w)
    \/ handler_returns(w)
    \/ \E e \in HandlerErrors : handler_raises(w, e)
    \/ process_done(w)
    \/ process_failed(w)

\* jobs.py: update_job_status (PATCH /internal/jobs/{job_id}). Fields present
\* in the body are written as given; nothing is checked against the row.
update_job_status(j, data) ==
    /\ j \in JobIds
    /\ jobs' = [jobs EXCEPT
                  ![j].status = IF "status" \in DOMAIN data
                                THEN data["status"] ELSE @,
                  ![j].result = IF "result" \in DOMAIN data
                                THEN data["result"] ELSE @]
    /\ UNCHANGED <<wpc, wjob, wexc>>
    /\ UNCHANGED <<taskVars, imp, apiVars>>

\* The bodies a PATCH can carry (exclude_unset: any subset of the fields).
PatchResults == {ResultOf("result", "patched")}
PatchBodies ==
    [{"status"} -> JobStatusValues]
    \cup [{"result"} -> PatchResults]
    \cup {[f \in {"status", "result"} |->
              IF f = "status" THEN s ELSE r] :
            s \in JobStatusValues, r \in PatchResults}

(***************************************************************************)
(* Task store (app/models.py, classes Task and Subtask) and the task        *)
(* router (app/routers/tasks.py).                                           *)
(*                                                                         *)
(* create_task commits twice and is split at its commits: the lookup, the   *)
(* commit of the insert or of the appended subtasks, and the commit of the  *)
(* recomputed status. The other handlers are one action each.               *)
(***************************************************************************)
Clients == 1..NumClients

\* models.py: TASK_STATUS_VALUES.
TASK_STATUS_VALUES == {"todo", "in_progress", "done", "checked"}

\* The child, subject and date of the requests, and the texts they use.
Children == {1}
SubjectIds == {1}
Dates == {"2025-10-01"}
Titles == {"A", "B"}
SubTitles == {"x", "y"}

TaskIds == 1..Len(tasks)

Range(f) == {f[i] : i \in DOMAIN f}

\* Max of a non-empty set of naturals, 0 for the empty set.
Max(S) == IF S = {} THEN 0 ELSE CHOOSE m \in S : \A n \in S : n <= m

\* A variant of _compute_task_status that tests for done before checked.
_compute_task_status_done_first(subtasks) ==
    LET statuses == {st.status : st \in Range(subtasks)} IN
    IF subtasks = <<>> THEN "todo"
    ELSE IF statuses \subseteq {"done", "checked"} THEN "done"
    ELSE IF statuses = {"checked"} THEN "checked"
    ELSE IF statuses \cap {"in_progress", "done"} # {} THEN "in_progress"
    ELSE "todo"

\* tasks.py: _compute_task_status, over the subtask rows of a task.
_compute_task_status(subtasks) ==
    LET statuses == {st.status : st \in Range(subtasks)} IN
    IF subtasks = <<>> THEN "todo"
    ELSE IF statuses = {"checked"} THEN "checked"
    ELSE IF statuses \subseteq {"done", "checked"} THEN "done"
    ELSE IF statuses \cap {"in_progress", "done"} # {} THEN "in_progress"
    ELSE "todo"

\* tasks.py: make_task_hash. The key f"{subject_id}:{date}:{title}", kept as
\* its three parts; its SHA-256 digest is taken to be injective and stands
\* for itself.
make_task_hash(subject_id, date, title) == <<subject_id, date, title>>

\* models.py: class Task declares no unique constraint on (child_id, hash)
\* (hash is only indexed), so an INSERT never raises IntegrityError for it.
UniqueViolation(child_id, hash) == FALSE

\* tasks.py: get_task_by_hash, the rows the SELECT matches.
get_task_by_hash(child_id, hash_value) ==
    {t \in TaskIds : tasks[t].child_id = child_id /\ tasks[t].hash = hash_value}

\* A new Subtask row: status "todo", no parent reaction.
NewSubtask(title, position) ==
    [title |-> title, status |-> "todo", position |-> position,
     parent_reaction |-> "null", type |-> "null"]

\* The TaskCreate bodies: a key and up to MaxSubs subtask titles, in order.
SubtaskLists == UNION {[1..n -> SubTitles] : n \in 0..MaxSubs}
TaskCreates ==
    [child_id : Children, subject_id : SubjectIds, date : Dates,
     title : Titles, subtasks : SubtaskLists]

NoRequest == [op |-> "none"]
NoResponse == [status |-> "none", task |-> 0, rivals |-> {}]

\* tasks.py: create_task, lines 134-145: the rows the lookup by
\* (child, subject, date, title) matches.
Existing(payload) ==
    {t \in TaskIds :
        /\ tasks[t].child_id = payload.child_id
        /\ tasks[t].subject_id = payload.subject_id
        /\ tasks[t].date = payload.date
        /\ tasks[t].title = payload.title}

\* The key create_task looks a task up by.
KeyOf(payload) ==
    <<payload.child_id, payload.subject_id, payload.date, payload.title>>

\* A variant of NewTitles that leaves out the test against the existing
\* titles: every incoming subtask counts as new.
NewTitles_Unfiltered(task, payload) == payload.subtasks

\* tasks.py: create_task, lines 149-152: the incoming titles that the
\* existing task does not hold, in payload order.
NewTitles(task, payload) ==
    LET existing_titles == {st.title : st \in Range(task.subtasks)}
        IsNew(title) == title \notin existing_titles
    IN SelectSeq(payload.subtasks, IsNew)

\* A variant of AppendedSubtasks that numbers the appended rows from 1.
AppendedSubtasks_FromOne(task, new_titles) ==
    [i \in 1..Len(new_titles) |-> NewSubtask(new_titles[i], i)]

\* tasks.py: create_task, lines 160-174: the rows to append, with positions
\* continuing from the largest position read at the lookup.
AppendedSubtasks(task, new_titles) ==
    LET max_pos == Max({st.position : st \in Range(task.subtasks)})
    IN [i \in 1..Len(new_titles) |-> NewSubtask(new_titles[i], max_pos + i)]

\* History: a finished create_task call; repeat says that the request
\* finished just before it was a create_task of the same body that returned
\* "created".
Done(payload, outcome, repeat) ==
    [op |-> "create_task", payload |-> payload, outcome |-> outcome,
     repeat |-> repeat]

\* History: the last finished request created a task from this body.
JustCreated(payload) ==
    /\ prev.op = "create_task"
    /\ prev.payload = payload
    /\ prev.outcome = "created"

\* History: the clients that, like c, found no task for the key of payload
\* and have not yet committed their insert.
Rivals(c, payload) ==
    {d \in Clients \ {c} :
        /\ cpc[d] = "insert"
        /\ KeyOf(creq[d].payload) = KeyOf(payload)}

\* tasks.py: create_task, lines 134-157 and 191-212: the lookup and what is
\* prepared from it. .first() picks any matching row. A complete duplicate
\* returns at once; otherwise the session holds the rows to write.
create_task_lookup(c, payload) ==
    /\ cpc[c] = "idle"
    /\ calls < MaxCalls
    /\ calls' = calls + 1
    /\ IF Existing(payload) = {}
       THEN /\ cpc' = [cpc EXCEPT ![c] = "insert"]
            /\ creq' = [d \in Clients |->
                          IF d = c
                          THEN [op |-> "insert", payload |-> payload,
                                repeat |-> JustCreated(payload),
                                rivals |-> Rivals(c, payload)]
                          ELSE IF d \in Rivals(c, payload)
                          THEN [creq[d] EXCEPT !.rivals = @ \cup {c}]
                          ELSE creq[d]]
            /\ cres' = [cres EXCEPT ![c] = NoResponse]
            /\ UNCHANGED <<tasks, prev>>
       ELSE \E t \in Existing(payload) :
              LET new_titles == NewTitles(tasks[t], payload) IN
              IF new_titles = <<>>
              THEN /\ cres' = [cres EXCEPT ![c] =
                                  [status |-> "duplicate", task |-> t,
                                   rivals |-> {}]]
                   /\ prev' = Done(payload, "duplicate", JustCreated(payload))
                   /\ UNCHANGED <<tasks, cpc, creq>>
              ELSE /\ cpc' = [cpc EXCEPT ![c] = "append"]
                   /\ creq' = [creq EXCEPT ![c] =
                                  [op |-> "append", payload |-> payload,
                                   repeat |-> JustCreated(payload),
                                   task |-> t,
                                   rows |-> AppendedSubtasks(tasks[t], new_titles)]]
                   /\ cres' = [cres EXCEPT ![c] = NoResponse]
                   /\ UNCHANGED <<tasks, prev>>
    /\ UNCHANGED <<jobVars, imp, apiVars>>

\* tasks.py: create_task, line 176: the commit of the appended subtasks.
create_task_append(c) ==
    /\ cpc[c] = "append"
    /\ LET t == creq[c].task IN
       /\ tasks' = [tasks EXCEPT ![t].subtasks = @ \o creq[c].rows]
    /\ cpc' = [cpc EXCEPT ![c] = "status"]
    /\ creq' = [creq EXCEPT ![c] =
                   [op |-> "status", payload |-> creq[c].payload,
                    repeat |-> creq[c].repeat, rivals |-> {},
                    task |-> creq[c].task, outcome |-> "updated"]]
    /\ prev' = NoRequest
    /\ UNCHANGED <<cres, calls>>
    /\ UNCHANGED <<jobVars, imp, apiVars>>

\* The Task row create_task inserts, with its subtasks at positions 1..n.
NewTask(payload) ==
    [child_id |-> payload.child_id, subject_id |-> payload.subject_id,
     date |-> payload.date, title |-> payload.title,
     hash |-> make_task_hash(payload.subject_id, payload.date, payload.title),
     status |-> "todo",
     subtasks |-> [i \in 1..Len(payload.subtasks) |->
                      NewSubtask(payload.subtasks[i], i)]]

\* tasks.py: create_task, lines 192-243: the commit of the new task. On an
\* IntegrityError the task found by hash is returned as a duplicate; without
\* subtasks the call returns "created" without a second commit.
create_task_insert(c) ==
    /\ cpc[c] = "insert"
    /\ LET payload == creq[c].payload
           task == NewTask(payload)
       IN IF UniqueViolation(task.child_id, task.hash)
          THEN /\ \E dup \in get_task_by_hash(task.child_id, task.hash) :
                    cres' = [cres EXCEPT ![c] =
                                [status |-> "duplicate", task |-> dup,
                                 rivals |-> creq[c].rivals]]
               /\ cpc' = [cpc EXCEPT ![c] = "idle"]
               /\ creq' = [creq EXCEPT ![c] = NoRequest]
               /\ prev' = Done(payload, "duplicate", creq[c].repeat)
               /\ UNCHANGED tasks
          ELSE /\ tasks' = Append(tasks, task)
               /\ IF task.subtasks = <<>>
                  THEN /\ cres' = [cres EXCEPT ![c] =
                                      [status |-> "created",
                                       task |-> Len(tasks) + 1,
                                       rivals |-> creq[c].rivals]]
                       /\ cpc' = [cpc EXCEPT ![c] = "idle"]
                       /\ creq' = [creq EXCEPT ![c] = NoRequest]
                       /\ prev' = Done(payload, "created", creq[c].repeat)
                  ELSE /\ cpc' = [cpc EXCEPT ![c] = "status"]
                       /\ creq' = [creq EXCEPT ![c] =
                                      [op |-> "status", payload |-> payload,
                                       repeat |-> creq[c].repeat,
                                       rivals |-> creq[c].rivals,
                                       task |-> Len(tasks) + 1,
                                       outcome |-> "created"]]
                       /\ prev' = NoRequest
                       /\ UNCHANGED cres
    /\ UNCHANGED calls
    /\ UNCHANGED <<jobVars, imp, apiVars>>

\* tasks.py: create_task, lines 179-189 and 231-243: the task is selected
\* again with its subtasks, its status recomputed and committed.
create_task_status(c) ==
    /\ cpc[c] = "status"
    /\ LET t == creq[c].task IN
       /\ tasks' = [tasks EXCEPT
                      ![t].status = _compute_task_status(tasks[t].subtasks)]
       /\ cres' = [cres EXCEPT ![c] =
                      [status |-> creq[c].outcome, task |-> t,
                       rivals |-> creq[c].rivals]]
       /\ prev' = Done(creq[c].payload, creq[c].outcome, creq[c].repeat)
    /\ cpc' = [cpc EXCEPT ![c] = "idle"]
    /\ creq' = [creq EXCEPT ![c] = NoRequest]
    /\ UNCHANGED calls
    /\ UNCHANGED <<jobVars, imp, apiVars>>

\* The task row t with its status recomputed from its subtasks.
WithStatus(task) ==
    [task EXCEPT !.status = _compute_task_status(task.subtasks)]

\* A request that is one action: it starts and finishes in the same step.
OneStep ==
    /\ calls < MaxCalls
    /\ calls' = calls + 1
    /\ prev' = NoRequest
    /\ UNCHANGED <<cpc, creq, cres>>
    /\ UNCHANGED <<jobVars, imp, apiVars>>

\* tasks.py: create_subtask. The new row gets the next position; the task's
\* status is left as it is.
create_subtask(t, title) ==
    /\ t \in TaskIds
    /\ LET position == IF tasks[t].subtasks # <<>>
                       THEN Max({st.position : st \in Range(tasks[t].subtasks)}) + 1
                       ELSE 1
       IN tasks' = [tasks EXCEPT
                      ![t].subtasks = Append(@, NewSubtask(title, position))]
    /\ OneStep

\* The reactions a parent leaves on a subtask.
Reactions == {"star"}

\* The SubtaskUpdate bodies: a new title, a new (valid) status or a parent
\* reaction.
SubtaskUpdates ==
    [{"title"} -> SubTitles] \cup [{"status"} -> TASK_STATUS_VALUES]
       \cup [{"parent_reaction"} -> Reactions]

\* tasks.py: update_subtask. The fields present are written, then the task's
\* status is recomputed and committed.
update_subtask(t, i, payload) ==
    /\ t \in TaskIds
    /\ i \in DOMAIN tasks[t].subtasks
    /\ tasks' = [tasks EXCEPT ![t] = WithStatus(
                    [@ EXCEPT !.subtasks[i] =
                        [title |-> IF "title" \in DOMAIN payload
                                   THEN payload["title"] ELSE @.title,
                         status |-> IF "status" \in DOMAIN payload
                                    THEN payload["status"] ELSE @.status,
                         position |-> @.position,
                         parent_reaction |->
                            IF "parent_reaction" \in DOMAIN payload
                            THEN payload["parent_reaction"]
                            ELSE @.parent_reaction,
                         type |-> @.type]])]
    /\ OneStep

\* tasks.py: start_subtask. Only a todo subtask becomes in_progress; the
\* task's status is recomputed and committed.
start_subtask(t, i) ==
    /\ t \in TaskIds
    /\ i \in DOMAIN tasks[t].subtasks
    /\ tasks' = [tasks EXCEPT ![t] = WithStatus(
                    [@ EXCEPT !.subtasks[i].status =
                        IF @ = "todo" THEN "in_progress" ELSE @])]
    /\ OneStep

\* tasks.py: complete_subtask. The subtask becomes done whatever it was.
complete_subtask(t, i) ==
    /\ t \in TaskIds
    /\ i \in DOMAIN tasks[t].subtasks
    /\ tasks' = [tasks EXCEPT ![t] = WithStatus(
                    [@ EXCEPT !.subtasks[i].status = "done"])]
    /\ OneStep

\* tasks.py: check_subtask. The subtask becomes checked whatever it was.
check_subtask(t, i) ==
    /\ t \in TaskIds
    /\ i \in DOMAIN tasks[t].subtasks
    /\ tasks' = [tasks EXCEPT ![t] = WithStatus(
                    [@ EXCEPT !.subtasks[i].status = "checked"])]
    /\ OneStep

\* A sequence without its i-th element.
RemoveAt(seq, i) == SubSeq(seq, 1, i - 1) \o SubSeq(seq, i + 1, Len(seq))

\* tasks.py: delete_subtask. The row is deleted; the task's status is left
\* as it is.
delete_subtask(t, i) ==
    /\ t \in TaskIds
    /\ i \in DOMAIN tasks[t].subtasks
    /\ tasks' = [tasks EXCEPT ![t].subtasks = RemoveAt(@, i)]
    /\ OneStep

\* The TaskUpdate bodies: a new title or a new (valid) status.
TaskUpdates ==
    [{"title"} -> Titles] \cup [{"status"} -> TASK_STATUS_VALUES]

\* tasks.py: update_task. The title and the status given are committed as
\* they are; the status recomputed after the commit (lines 275-276) only
\* goes into the response. The hash is not touched.
update_task(t, payload) ==
    /\ t \in TaskIds
    /\ tasks' = [tasks EXCEPT
                   ![t].title = IF "title" \in DOMAIN payload
                                THEN payload["title"] ELSE @,
                   ![t].status = IF "status" \in DOMAIN payload
                                 THEN payload["status"] ELSE @]
    /\ OneStep

TaskInit ==
    /\ tasks = <<>>
    /\ cpc = [c \in Clients |-> "idle"]
    /\ creq = [c \in Clients |-> NoRequest]
    /\ cres = [c \in Clients |-> NoResponse]
    /\ prev = NoRequest
    /\ calls = 0

JobInit ==
    /\ jobs = <<>>
    /\ wpc = [w \in Workers |-> "poll"]
    /\ wjob = [w \in Workers |-> 0]
    /\ wexc = [w \in Workers |-> "none"]

\* No import is being processed.
NoImport ==
    [pc |-> "idle", w |-> 0, id |-> 0, job |-> "none", raw_text |-> "",
     called |-> FALSE,
     before |-> <<>>, blocks |-> <<>>, idx |-> 0, results |-> <<>>,
     outcome |-> "none", error |-> "none"]

ImportInit == imp = NoImport

vars == <<jobVars, taskVars, imp, apiVars>>

\* No user is registered and no request was answered.
NoResponseYet == [op |-> "none"]
ApiInit == users = <<>> /\ resp = NoResponseYet

Init == JobInit /\ TaskInit /\ ImportInit /\ ApiInit

\* Jobs are submitted by one user, whose id is 1.
SubmitJob == \E t \in JobTypes, tick \in Ticks : create_job(1, t, tick)
WorkerStep == \E w \in Workers : worker_loop(w)
PatchStep == \E j \in JobIds, d \in PatchBodies : update_job_status(j, d)

\* Job submission and the worker loops.
Next == SubmitJob \/ WorkerStep

Spec == Init /\ [][Next]_vars

\* The requests of the task router, from any number of clients at once.
NextTasks ==
    \/ \E c \in Clients, payload \in TaskCreates : create_task_lookup(c, payload)
    \/ \E c \in Clients : create_task_append(c)
    \/ \E c \in Clients : create_task_insert(c)
    \/ \E c \in Clients : create_task_status(c)
    \/ \E t \in TaskIds, title \in SubTitles : create_subtask(t, title)
    \/ \E t \in TaskIds : \E i \in DOMAIN tasks[t].subtasks, payload \in SubtaskUpdates :
          update_subtask(t, i, payload)
    \/ \E t \in TaskIds : \E i \in DOMAIN tasks[t].subtasks : start_subtask(t, i)
    \/ \E t \in TaskIds : \E i \in DOMAIN tasks[t].subtasks : complete_subtask(t, i)
    \/ \E t \in TaskIds : \E i \in DOMAIN tasks[t].subtasks : check_subtask(t, i)
    \/ \E t \in TaskIds : \E i \in DOMAIN tasks[t].subtasks : delete_subtask(t, i)
    \/ \E t \in TaskIds, payload \in TaskUpdates : update_task(t, payload)

SpecTasks == Init /\ [][NextTasks]_vars

\* No create_task call is in flight.
Quiescent == \A c \in Clients : cpc[c] = "idle"

\* A run of at most MaxSeqCalls requests, each sent after the response to
\* the one before.
Sequential ==
    /\ calls' <= MaxSeqCalls
    /\ calls' # calls => Quiescent

\* The requests of the task router, sent by one client one after the other.
NextSeq ==
    \/ \E payload \in TaskCreates : create_task_lookup(1, payload) /\ Sequential
    \/ create_task_append(1) /\ Sequential
    \/ create_task_insert(1) /\ Sequential
    \/ create_task_status(1) /\ Sequential
    \/ \E t \in TaskIds, title \in SubTitles :
          create_subtask(t, title) /\ Sequential
    \/ \E t \in TaskIds : \E i \in DOMAIN tasks[t].subtasks, payload \in SubtaskUpdates :
          update_subtask(t, i, payload) /\ Sequential
    \/ \E t \in TaskIds : \E i \in DOMAIN tasks[t].subtasks :
          start_subtask(t, i) /\ Sequential
    \/ \E t \in TaskIds : \E i \in DOMAIN tasks[t].subtasks :
          complete_subtask(t, i) /\ Sequential
    \/ \E t \in TaskIds : \E i \in DOMAIN tasks[t].subtasks :
          check_subtask(t, i) /\ Sequential
    \/ \E t \in TaskIds : \E i \in DOMAIN tasks[t].subtasks :
          delete_subtask(t, i) /\ Sequential
    \/ \E t \in TaskIds, payload \in TaskUpdates :
          update_task(t, payload) /\ Sequential

SpecSeq == Init /\ [][NextSeq]_vars

\* The subtask titles in a fixed order.
TitleAt(i) == IF i % 2 = 1 THEN "x" ELSE "y"

\* Stores that earlier requests (create_task, then update_subtask calls)
\* leave behind: none, or one task "A" with up to MaxSubs subtasks at the
\* positions 1..n, in any statuses and with any reactions, the task's
\* status being the one update_subtask computed last.
SeedSubtasks ==
    UNION {[1..n -> TASK_STATUS_VALUES \X ({"null"} \cup Reactions)]
              : n \in 0..MaxSubs}
SeedTask(seed) ==
    WithStatus(
       [child_id |-> 1, subject_id |-> 1, date |-> "2025-10-01",
        title |-> "A",
        hash |-> make_task_hash(1, "2025-10-01", "A"),
        status |-> "todo",
        subtasks |-> [i \in DOMAIN seed |->
                        [title |-> TitleAt(i), status |-> seed[i][1],
                         position |-> i, parent_reaction |-> seed[i][2],
                         type |-> "null"]]])
SeedStores == {<<>>} \cup {<<SeedTask(seed)>> : seed \in SeedSubtasks}

\* The state after those earlier requests, one request before the budget
\* of the sequential run is used up.
InitSeeded ==
    /\ ApiInit
    /\ JobInit
    /\ ImportInit
    /\ tasks \in SeedStores
    /\ cpc = [c \in Clients |-> "idle"]
    /\ creq = [c \in Clients |-> NoRequest]
    /\ cres = [c \in Clients |-> NoResponse]
    /\ prev = NoRequest
    /\ calls = MaxSeqCalls - 1

\* One more request on such a store.
SpecSeeded == InitSeeded /\ [][NextSeq]_vars

\* The same with the worker status-update channel.
NextPatch == SubmitJob \/ WorkerStep \/ PatchStep

SpecPatch == Init /\ [][NextPatch]_vars

\* Job submission and a single worker process.
NextSolo == SubmitJob \/ worker_loop(1)

SpecSolo == Init /\ [][NextSolo]_vars

\* Job submission and worker processes that may die and be started again.
CrashStep == \E w \in Workers : worker_crash(w)
NextCrash == SubmitJob \/ WorkerStep \/ CrashStep

SpecCrash == Init /\ [][NextCrash]_vars

\* Every worker's loop keeps running: each iteration of `while True` is
\* eventually executed and every awaited handler eventually completes.
SpecLive == Spec /\ \A w \in Workers : WF_vars(worker_loop(w))

(***************************************************************************)
(* process_import.py: the import handler.                                  *)
(*                                                                         *)
(* A text is a sequence of characters. A Cyrillic letter is written "~"    *)
(* followed by its transliteration, in upper case for a capital letter     *)
(* ("~d" is д, "~D" is Д, "~No" is №); other characters stand for          *)
(* themselves.                                                             *)
(***************************************************************************)

\* str.lower(): the capital letters and their lower-case forms.
CapitalLetters ==
    {<<"~A", "~a">>, <<"~B", "~b">>, <<"~V", "~v">>, <<"~G", "~g">>,
     <<"~D", "~d">>, <<"~E", "~e">>, <<"~YO", "~yo">>, <<"~ZH", "~zh">>,
     <<"~Z", "~z">>, <<"~I", "~i">>, <<"~J", "~j">>, <<"~K", "~k">>,
     <<"~L", "~l">>, <<"~M", "~m">>, <<"~N", "~n">>, <<"~O", "~o">>,
     <<"~P", "~p">>, <<"~R", "~r">>, <<"~S", "~s">>, <<"~T", "~t">>,
     <<"~U", "~u">>, <<"~F", "~f">>, <<"~H", "~h">>, <<"~C", "~c">>,
     <<"~CH", "~ch">>, <<"~SH", "~sh">>, <<"~SCH", "~sch">>, <<"~Q", "~q">>,
     <<"~Y", "~y">>, <<"~W", "~w">>, <<"~EH", "~eh">>, <<"~YU", "~yu">>,
     <<"~YA", "~ya">>, <<"A", "a">>, <<"B", "b">>, <<"C", "c">>,
     <<"D", "d">>, <<"E", "e">>, <<"F", "f">>, <<"G", "g">>, <<"H", "h">>,
     <<"I", "i">>, <<"J", "j">>, <<"K", "k">>, <<"L", "l">>, <<"M", "m">>,
     <<"N", "n">>, <<"O", "o">>, <<"P", "p">>, <<"Q", "q">>, <<"R", "r">>,
     <<"S", "s">>, <<"T", "t">>, <<"U", "u">>, <<"V", "v">>, <<"W", "w">>,
     <<"X", "x">>, <<"Y", "y">>, <<"Z", "z">>}
lower(text) ==
    [i \in DOMAIN text |->
        IF \E p \in CapitalLetters : p[1] = text[i]
        THEN (CHOOSE p \in CapitalLetters : p[1] = text[i])[2]
        ELSE text[i]]

\* str.strip(): the text without its leading and trailing blanks.
strip(text) ==
    LET inked == {i \in DOMAIN text : text[i] # " "} IN
    IF inked = {} THEN <<>>
    ELSE SubSeq(text, CHOOSE i \in inked : \A j \in inked : i <= j,
                      CHOOSE i \in inked : \A j \in inked : j <= i)

\* `kw in text`: kw occurs in text as a substring.
Contains(text, kw) ==
    \E i \in 1..(Len(text) - Len(kw) + 1) :
       SubSeq(text, i, i + Len(kw) - 1) = kw

\* process_import.py: has_homework, line 23: the negation phrases
\*   домашнего задания нет
\*   нет домашнего задания
\*   дз нет
\*   домашки нет
NegationPhrases ==
    {<<"~d", "~o", "~m", "~a", "~sh", "~n", "~e", "~g", "~o", " ", "~z", "~a", "~d", "~a", "~n", "~i", "~ya", " ", "~n", "~e", "~t">>,
     <<"~n", "~e", "~t", " ", "~d", "~o", "~m", "~a", "~sh", "~n", "~e", "~g", "~o", " ", "~z", "~a", "~d", "~a", "~n", "~i", "~ya">>,
     <<"~d", "~z", " ", "~n", "~e", "~t">>,
     <<"~d", "~o", "~m", "~a", "~sh", "~k", "~i", " ", "~n", "~e", "~t">>}

\* process_import.py: CATEGORIES, in declaration order, each with its
\* keywords in order.
CATEGORIES ==
    <<[cat |-> "exercise", keywords |-> <<
         <<"~p", "~r", "~i", "~m", "~e", "~r">>,   \* пример
         <<"~u", "~p", "~r">>,   \* упр
         <<"~z", "~a", "~d", "~a", "~ch", "~a">>,   \* задача
         <<"~r", "~e", "~sh", "~i", "~t", "~w">>,   \* решить
         <<"~n", "~o", "~m", "~e", "~r">>,   \* номер
         <<"#">>,   \* #
         <<"~No">>,   \* №
         <<"~v", "~y", "~p", "~o", "~l", "~n", "~i", "~t", "~w">>,   \* выполнить
         <<"~n", "~a", "~p", "~i", "~s", "~a", "~t", "~w">>>>],   \* написать
      [cat |-> "theory", keywords |-> <<
         <<"~v", "~y", "~u", "~ch", "~i", "~t", "~w">>,   \* выучить
         <<"~p", "~o", "~v", "~t", "~o", "~r", "~i", "~t", "~w">>,   \* повторить
         <<"~p", "~r", "~o", "~ch", "~i", "~t", "~a", "~t", "~w">>,   \* прочитать
         <<"~p", "~e", "~r", "~e", "~s", "~k", "~a", "~z">>,   \* пересказ
         <<"~u", "~ch", "~i", "~t", "~w">>>>],   \* учить
      [cat |-> "dictation", keywords |-> <<
         <<"~d", "~i", "~k", "~t", "~a", "~n", "~t">>,   \* диктант
         <<"~s", "~l", "~o", "~v", "~a", "~r", "~w">>>>],   \* словарь
      [cat |-> "map", keywords |-> <<
         <<"~k", "~a", "~r", "~t", "~a">>,   \* карта
         <<"~a", "~t", "~l", "~a", "~s">>,   \* атлас
         <<"~k", "~o", "~n", "~t", "~u", "~r", "~n", "~a", "~ya", " ", "~k", "~a", "~r", "~t", "~a">>>>],   \* контурная карта
      [cat |-> "drawing", keywords |-> <<
         <<"~ch", "~e", "~r", "~t", "~e", "~zh">>,   \* чертеж
         <<"~r", "~i", "~s", "~u", "~n", "~o", "~k">>>>],   \* рисунок
      [cat |-> "reminder", keywords |-> <<
         <<"~p", "~r", "~i", "~n", "~e", "~s", "~t", "~i">>,   \* принести
         <<"~v", "~z", "~ya", "~t", "~w", " ", "~s", " ", "~s", "~o", "~b", "~o", "~j">>>>],   \* взять с собой
      [cat |-> "file", keywords |-> <<
         <<"~s", "~m", " ", "~f", "~a", "~j", "~l">>,   \* см файл
         <<"~v", "~y", "~p", "~o", "~l", "~n", "~i", "~t", "~w", " ", "~z", "~a", "~d", "~a", "~n", "~i", "~e", " ", "~v", " ", "~f", "~a", "~j", "~l", "~e">>,   \* выполнить задание в файле
         <<"~f", "~a", "~j", "~l">>>>]>>   \* файл


\* process_import.py: SUBJECTS, the canonical names with their variants.
SUBJECTS ==
    <<[canon |-> <<"~m", "~a", "~t", "~e", "~m", "~a", "~t", "~i", "~k", "~a">>,   \* математика
      variants |-> {
         <<"~m", "~a", "~t">>,   \* мат
         <<"~m", "~a", "~t", "-", "~k", "~a">>,   \* мат-ка
         <<"~m", "~a", "~t", "~e", "~sh", "~a">>,   \* матеша
         <<"~m", "~a", "~t", ".">>,   \* мат.
         <<"~m", "~a", "~t", "~e", "~m">>}],   \* матем
      [canon |-> <<"~r", "~u", "~s", "~s", "~k", "~i", "~j", " ", "~ya", "~z", "~y", "~k">>,   \* русский язык
      variants |-> {
         <<"~r", "~u", "~s">>,   \* рус
         <<"~r", "~u", "~s", "~s", "~k", "~i", "~j">>,   \* русский
         <<"~r", "~u", "~s", ".", " ", "~ya", "~z", ".">>,   \* рус. яз.
         <<"~r", "~u", "~s", "~k", "~i", "~j">>}],   \* руский
      [canon |-> <<"~a", "~n", "~g", "~l", "~i", "~j", "~s", "~k", "~i", "~j", " ", "~ya", "~z", "~y", "~k">>,   \* английский язык
      variants |-> {
         <<"~a", "~n", "~g", "~l">>,   \* англ
         <<"~a", "~n", "~g", "~l", "~i", "~j", "~s", "~k", "~i", "~j">>,   \* английский
         <<"~a", "~n", "~g", "~l", ".", " ", "~ya", "~z", ".">>,   \* англ. яз.
         <<"~i", "~n", "~g", "~l", "~i", "~sh">>}],   \* инглиш
      [canon |-> <<"~i", "~s", "~t", "~o", "~r", "~i", "~ya">>,   \* история
      variants |-> {
         <<"~i", "~s", "~t">>,   \* ист
         <<"~i", "~s", "~t", "~o", "~r", "~i", "~ya">>,   \* история
         <<"~i", "~s", "~t", "~o", "~r">>}],   \* истор
      [canon |-> <<"~t", "~r", "~u", "~d">>,   \* труд
      variants |-> {
         <<"~t", "~r", "~u", "~d">>,   \* труд
         <<"~t", "~r", "~u", "~d", "~y">>,   \* труды
         <<"~t", "~e", "~h", "~n", "~o", "~l", "~o", "~g", "~i", "~ya">>}],   \* технология
      [canon |-> <<"~I", "~Z", "~O">>,   \* ИЗО
      variants |-> {
         <<"~i", "~z", "~o", "~sh", "~a">>,   \* изоша
         <<"~i", "~z", "~o", "~b", "~r", "~a", "~z", "~i", "~t", "~e", "~l", "~w", "~n", "~o", "~e", " ", "~i", "~s", "~k", "~u", "~s", "~s", "~t", "~v", "~o">>}],   \* изобразительное искусство
      [canon |-> <<"~b", "~i", "~o", "~l", "~o", "~g", "~i", "~ya">>,   \* биология
      variants |-> {
         <<"~b", "~i", "~o">>,   \* био
         <<"~b", "~i", "~o", "~l">>}]>>   \* биол


\* rapidfuzz process.extractOne(text, choices) with its default scorer: the
\* score of a choice that has no character in common with the text is 0;
\* any other score is left open.
MayScore(text, choice) == Range(text) \cap Range(choice) # {}

\* process_import.py: detect_category, the categories it may return. The
\* first category in declaration order one of whose keywords occurs in the
\* lowercased, stripped text; without such a keyword, the category of the
\* best fuzzy match if it scores at least the threshold, else "other".
detect_category(text) ==
    LET t == strip(lower(text))
        Hit(i) == \E k \in DOMAIN CATEGORIES[i].keywords :
                     Contains(t, CATEGORIES[i].keywords[k])
        hits == {i \in DOMAIN CATEGORIES : Hit(i)}
        fuzzy == {CATEGORIES[i].cat : i \in
                     {i \in DOMAIN CATEGORIES :
                         \E k \in DOMAIN CATEGORIES[i].keywords :
                            MayScore(t, CATEGORIES[i].keywords[k])}}
    IN IF hits # {}
       THEN {CATEGORIES[CHOOSE i \in hits : \A j \in hits : i <= j].cat}
       ELSE fuzzy \cup {"other"}

\* A variant of has_homework that also filters blocks of several subtasks
\* by their first subtask.
has_homework_first_subtask(subject) ==
    IF Len(subject.task.subtasks) = 0 THEN TRUE
    ELSE ~ \E phrase \in NegationPhrases :
              Contains(lower(subject.task.subtasks[1].detail), phrase)

\* process_import.py: has_homework.
has_homework(subject) ==
    LET subtasks == subject.task.subtasks IN
    IF Len(subtasks) # 1 THEN TRUE
    ELSE ~ \E phrase \in NegationPhrases :
              Contains(lower(subtasks[1].detail), phrase)

\* str.rstrip(): the text without its trailing blanks.
rstrip(text) ==
    LET inked == {i \in DOMAIN text : text[i] # " "} IN
    IF inked = {} THEN <<>>
    ELSE SubSeq(text, 1, CHOOSE i \in inked : \A j \in inked : j <= i)

\* process_import.py: trim_description. A text of more than 50 characters
\* is cut to its first 50, right-stripped, with "..." appended.
trim_description(text) ==
    IF Len(text) <= 50 THEN text
    ELSE rstrip(SubSeq(text, 1, 50)) \o <<".", ".", ".">>

\* re.sub(r"[^\w\s]", "", name): the characters that are neither word
\* characters nor white space are removed.
Punctuation == {".", "-", ",", ":", ";", "!", "?", "#", "~No"}
RemovePunctuation(text) ==
    LET Kept(ch) == ch \notin Punctuation IN SelectSeq(text, Kept)

\* process_import.py: normalize_subject, the names it may return: the
\* canonical name of the first entry of SUBJECTS the cleaned name equals or
\* is a variant of; else the best fuzzy match if it scores at least the
\* threshold; else the cleaned name.
normalize_subject(name) ==
    LET n == RemovePunctuation(strip(lower(name)))
        direct == {i \in DOMAIN SUBJECTS :
                      n = SUBJECTS[i].canon \/ n \in SUBJECTS[i].variants}
        fuzzy == {SUBJECTS[i].canon : i \in
                     {i \in DOMAIN SUBJECTS : MayScore(n, SUBJECTS[i].canon)}}
    IN IF direct # {}
       THEN {SUBJECTS[CHOOSE i \in direct : \A j \in direct : i <= j].canon}
       ELSE fuzzy \cup {n}

\* The subjects table: one subject, математика.
SubjectRows ==
    {[id |-> 1,
      name |-> <<"~m", "~a", "~t", "~e", "~m", "~a", "~t", "~i", "~k", "~a">>]}

\* subjects.py: get_subject_id_by_name. The ids of the rows whose name
\* matches the stripped, lowercased name case-insensitively; when there is
\* none the function raises HTTPException(404).
get_subject_id_by_name(name) ==
    {row.id : row \in {r \in SubjectRows :
                          lower(r.name) = lower(strip(name))}}

\* Subject names, subtask details and subtask types as the extraction
\* collaborator returns them.
N_math == <<"~M", "~a", "~t", "~e", "~m", "~a", "~t", "~i", "~k", "~a">>   \* Математика
N_variant == <<"~m", "~a", "~t", "~e", "~sh", "~a">>   \* матеша
N_unknown == <<"x", "y", "z">>   \* xyz
D_none == <<"~D", "~Z", " ", "~n", "~e", "~t">>   \* ДЗ нет
D_mixed == <<"~V", "~y", "~u", "~ch", "~i", "~t", "~w", " ", "~u", "~p", "~r", " ", "5">>   \* Выучить упр 5
D_plain == <<"~s", "~t", "~r", " ", "5">>   \* стр 5
T_theory == <<"t", "h", "e", "o", "r", "y">>   \* theory
T_exercise == <<"e", "x", "e", "r", "c", "i", "s", "e">>   \* exercise
T_other == <<"o", "t", "h", "e", "r">>   \* other
P_read == <<"~CH", "~t", "~e", "~n", "~i", "~e">>   \* Чтение
P_page == <<"~s", "~t", "~r", " ", "7">>   \* стр 7
\* Подготовить доклад о первобытном периоде по параграфу пять
P_long ==
    <<"~P", "~o", "~d", "~g", "~o", "~t", "~o", "~v", "~i", "~t", "~w",
      " ", "~d", "~o", "~k", "~l", "~a", "~d", " ", "~o", " ", "~p", "~e",
      "~r", "~v", "~o", "~b", "~y", "~t", "~n", "~o", "~m", " ", "~p",
      "~e", "~r", "~i", "~o", "~d", "~e", " ", "~p", "~o", " ", "~p", "~a",
      "~r", "~a", "~g", "~r", "~a", "~f", "~u", " ", "~p", "~ya", "~t",
      "~w">>

\* One subject block of a response; lacks names a required field the block
\* comes without ("none" for a complete block).
Block(name, description, subtasks, lacks) ==
    [name |-> name, date |-> "2025-10-01",
     task |-> [description |-> description, subtasks |-> subtasks],
     lacks |-> lacks]
Sub(type, detail) == [type |-> type, detail |-> detail]

\* The subject blocks of the responses.
Blocks ==
    {Block(N_math, P_read, <<Sub(T_theory, D_mixed)>>, "none"),
     Block(N_variant, P_page, <<Sub(T_other, D_none)>>, "none"),
     Block(N_math, P_page, <<Sub(T_other, D_none), Sub(T_exercise, D_plain)>>,
           "none"),
     Block(N_variant, P_long, <<>>, "none"),
     Block(N_unknown, P_read, <<Sub(T_theory, D_mixed)>>, "none"),
     Block(N_math, P_read, <<Sub(T_exercise, D_plain)>>, "description"),
     Block(N_math, P_page, <<Sub(T_exercise, D_plain)>>, "date")}

\* The responses: up to MaxBlocks subject blocks.
Responses == UNION {[1..n -> Blocks] : n \in 0..MaxBlocks}

\* What the call of the extraction collaborator ends in (agent_parser.py,
\* lines 104-129): the collaborator cannot be reached or its answer is not
\* JSON, and the call raises; or the call returns a response.
AgentFailures ==
    {"Connection error.", "Expecting value: line 1 column 1 (char 0)"}
AgentOutcomes ==
    {[raises |-> e, subjects |-> <<>>] : e \in AgentFailures}
    \cup {[raises |-> "none", subjects |-> r] : r \in Responses}

\* The job argument: the dict copy of the row that worker.py passes
\* (lines 54 and 72), or a Job object as the handler's signature and
\* docstring describe it.
JobArgs == {"dict", "object"}

\* payload.get("text"): no text, or a homework text.
RawTexts == {"", "homework"}

\* The handler raises e: the worker's except branch is next.
Raised(w, e) ==
    /\ wpc' = [wpc EXCEPT ![w] = "raised"]
    /\ wexc' = [wexc EXCEPT ![w] = e]

\* A variant of import_begin that calls the collaborator whatever the text.
import_begin_unchecked(w, job, raw_text) ==
    /\ wpc[w] = "handler"
    /\ imp.pc \in {"idle", "done"}
    /\ imp' = [NoImport EXCEPT !.pc = "agent", !.w = w, !.id = wjob[w],
                               !.job = job, !.raw_text = raw_text,
                               !.before = tasks]
    /\ UNCHANGED <<wpc, wexc>>
    /\ UNCHANGED <<jobs, wjob>>
    /\ UNCHANGED taskVars
    /\ UNCHANGED apiVars

\* process_import.py: process_import_homework, lines 95-100: the payload is
\* read off the job and the text is checked.
import_begin(w, job, raw_text) ==
    /\ wpc[w] = "handler"
    /\ imp.pc \in {"idle", "done"}
    /\ LET started == [NoImport EXCEPT !.w = w, !.id = wjob[w], !.job = job,
                                       !.raw_text = raw_text,
                                       !.before = tasks]
       IN IF job = "dict"
          THEN /\ Raised(w, "'dict' object has no attribute 'payload'")
               /\ imp' = [started EXCEPT !.pc = "done", !.outcome = "raised",
                             !.error = "'dict' object has no attribute 'payload'"]
          ELSE IF raw_text = ""
          THEN /\ Raised(w, "No homework content provided")
               /\ imp' = [started EXCEPT !.pc = "done", !.outcome = "raised",
                             !.error = "No homework content provided"]
          ELSE /\ imp' = [started EXCEPT !.pc = "agent"]
               /\ UNCHANGED <<wpc, wexc>>
    /\ UNCHANGED <<jobs, wjob>>
    /\ UNCHANGED taskVars
    /\ UNCHANGED apiVars

\* process_import.py: line 103: the extraction collaborator is called.
import_agent(outcome) ==
    /\ imp.pc = "agent"
    /\ IF outcome.raises # "none"
       THEN /\ Raised(imp.w, outcome.raises)
            /\ imp' = [imp EXCEPT !.pc = "done", !.called = TRUE,
                                  !.outcome = "raised",
                                  !.error = outcome.raises]
       ELSE /\ imp' = [imp EXCEPT !.pc = "loop", !.called = TRUE,
                                  !.blocks = outcome.subjects,
                                  !.idx = 1]
            /\ UNCHANGED <<wpc, wexc>>
    /\ UNCHANGED <<jobs, wjob>>
    /\ UNCHANGED taskVars
    /\ UNCHANGED apiVars

\* process_import.py, lines 119-134: the SubtaskCreate items and the
\* TaskCreate built from a block; types gives each item's type, one of the
\* categories detect_category may return for the subtask's type field.
TypeChoices(block) ==
    {types \in [DOMAIN block.task.subtasks -> {c.cat : c \in Range(CATEGORIES)}
                                                 \cup {"other"}] :
        \A i \in DOMAIN types :
           types[i] \in detect_category(block.task.subtasks[i].type)}
Items(block, types) ==
    [i \in DOMAIN block.task.subtasks |->
        [title |-> block.task.subtasks[i].detail, type |-> types[i]]]
TaskCreateOf(block, subject_id) ==
    [child_id |-> 1, subject_id |-> subject_id, date |-> block.date,
     title |-> trim_description(block.task.description),
     subtasks |-> [i \in DOMAIN block.task.subtasks |->
                      block.task.subtasks[i].detail]]

\* tasks.py: create_task, lines 163-165: the type of an appended row is
\* that of the first incoming item with its title.
TypeOfTitle(items, title) ==
    items[CHOOSE k \in DOMAIN items :
             /\ items[k].title = title
             /\ \A m \in DOMAIN items : items[m].title = title => k <= m].type

\* tasks.py: create_task as process_import_homework calls it (line 137),
\* from the lookup to the return with no other request in between: the
\* status returned and the tasks table afterwards.
create_task(payload, items) ==
    IF Existing(payload) = {}
    THEN [status |-> "created",
          tasks |-> Append(tasks, WithStatus(
              [NewTask(payload) EXCEPT !.subtasks =
                  [i \in DOMAIN @ |-> [@[i] EXCEPT !.type = items[i].type]]]))]
    ELSE LET t == CHOOSE t \in Existing(payload) :
                     \A u \in Existing(payload) : t <= u
             new_titles == NewTitles(tasks[t], payload)
             rows == AppendedSubtasks(tasks[t], new_titles)
         IN IF new_titles = <<>>
            THEN [status |-> "duplicate", tasks |-> tasks]
            ELSE [status |-> "updated",
                  tasks |-> [tasks EXCEPT ![t] = WithStatus(
                     [@ EXCEPT !.subtasks = @ \o
                        [i \in DOMAIN rows |->
                           [rows[i] EXCEPT !.type =
                               TypeOfTitle(items, rows[i].title)]]])]]

\* process_import.py, lines 110-115: the exception the loop body raises for
\* a block whose subject name was normalized to name ("none": none). The
\* subject is resolved first, then the date and the description are read.
BlockError(block, name) ==
    IF get_subject_id_by_name(name) = {} THEN "404: Subject not found"
    ELSE IF block.lacks = "date"
    THEN "type object 'datetime.datetime' has no attribute 'timedelta'"
    ELSE IF block.lacks = "description" THEN "'description'"
    ELSE "none"

\* process_import.py: process_import_homework, lines 106-138: one pass of
\* the loop over the subject blocks.
import_block ==
    /\ imp.pc = "loop"
    /\ imp.idx <= Len(imp.blocks)
    /\ LET block == imp.blocks[imp.idx] IN
       IF ~ has_homework(block)
       THEN /\ imp' = [imp EXCEPT !.idx = @ + 1]
            /\ UNCHANGED <<tasks, wpc, wexc>>
       ELSE \E name \in normalize_subject(block.name) :
              IF BlockError(block, name) # "none"
              THEN /\ Raised(imp.w, BlockError(block, name))
                   /\ imp' = [imp EXCEPT !.pc = "done", !.outcome = "raised",
                                         !.error = BlockError(block, name)]
                   /\ UNCHANGED tasks
              ELSE \E subject_id \in get_subject_id_by_name(name),
                      types \in TypeChoices(block) :
                     LET r == create_task(TaskCreateOf(block, subject_id),
                                          Items(block, types))
                     IN /\ tasks' = r.tasks
                        /\ imp' = [imp EXCEPT !.idx = @ + 1,
                                        !.results = Append(@, r.status)]
                        /\ UNCHANGED <<wpc, wexc>>
    /\ UNCHANGED <<jobs, wjob>>
    /\ UNCHANGED <<cpc, creq, cres, prev, calls>>
    /\ UNCHANGED apiVars

\* process_import.py: line 140: the handler returns the number of
\* create_task calls.
import_return ==
    /\ imp.pc = "loop"
    /\ imp.idx > Len(imp.blocks)
    /\ wpc' = [wpc EXCEPT ![imp.w] = "returned"]
    /\ imp' = [imp EXCEPT !.pc = "done", !.outcome = "returned"]
    /\ UNCHANGED <<jobs, wjob, wexc>>
    /\ UNCHANGED taskVars
    /\ UNCHANGED apiVars

\* One worker that runs the registered handler, process_import_homework:
\* the job argument is the dict worker.py passes or a Job object as the
\* handler's docstring describes it.
ImportStep ==
    \/ \E job \in JobArgs, raw_text \in RawTexts :
          import_begin(1, job, raw_text)
    \/ \E outcome \in AgentOutcomes : import_agent(outcome)
    \/ import_block
    \/ import_return

NextImport ==
    \/ Len(jobs) < MaxImports /\ create_job(1, "import_homework", 1)
    \/ _fetch_next_job(1)
    \/ worker_sleep(1)
    \/ process_start(1)
    \/ ImportStep
    \/ process_done(1)
    \/ process_failed(1)

SpecImport == Init /\ [][NextImport]_vars

(***************************************************************************)
(* auth.py, routers/users.py and the public part of routers/jobs.py.       *)
(***************************************************************************)
\* auth.py: ALLOWED_ROLES.
ALLOWED_ROLES == {"child", "parent", "admin"}

UserIds == 1..Len(users)

\* The bearer token of a request: 0 stands for credentials that do not
\* validate (no Authorization header, a token that does not decode, a
\* payload without sub or role), u > 0 for a token that decodes to sub = u.
\* The role in the token is checked for presence only (auth.py, line 48).
Tokens == 0..NumUsers

\* auth.py: get_current_user. The id of the user the token identifies, 0
\* when the function raises 401: the token does not validate or no user has
\* the id.
get_current_user(token) == IF token \in UserIds THEN token ELSE 0

\* A variant of require_roles that accepts every authenticated user.
require_roles_any(roles, token) ==
    IF get_current_user(token) = 0 THEN 401 ELSE 200

\* auth.py: require_roles. The status the dependency ends in: 401 from
\* get_current_user, 403 when the user's role (as stored) is not among the
\* roles, 200 when the request goes on to the handler.
require_roles(roles, token) ==
    IF get_current_user(token) = 0 THEN 401
    ELSE IF users[get_current_user(token)] \notin roles THEN 403
    ELSE 200

\* The response to a request: the handler, the token and the path
\* parameter it came with, the status code, and the rows of the body.
Response(op, token, arg, status, body) ==
    [op |-> op, token |-> token, arg |-> arg, status |-> status,
     body |-> body]

\* routers/auth.py: register. Any of the allowed roles can be registered.
register(role) ==
    /\ Len(users) < NumUsers
    /\ users' = Append(users, role)
    /\ resp' = Response("register", 0, 0, 200, <<>>)
    /\ UNCHANGED <<jobVars, taskVars, imp>>

\* routers/users.py: list_users, behind require_roles("admin").
list_users(token) ==
    /\ LET status == require_roles({"admin"}, token) IN
       resp' = Response("list_users", token, 0, status,
                        IF status = 200 THEN users ELSE <<>>)
    /\ UNCHANGED users
    /\ UNCHANGED <<jobVars, taskVars, imp>>

\* routers/users.py: update_user with a role in the body, behind
\* require_roles("admin"); 404 for an id without user.
update_user(token, user_id, role) ==
    /\ LET status == require_roles({"admin"}, token) IN
       IF status # 200
       THEN /\ resp' = Response("update_user", token, user_id, status, <<>>)
            /\ UNCHANGED users
       ELSE IF user_id \notin UserIds
       THEN /\ resp' = Response("update_user", token, user_id, 404, <<>>)
            /\ UNCHANGED users
       ELSE /\ users' = [users EXCEPT ![user_id] = role]
            /\ resp' = Response("update_user", token, user_id, 200, <<>>)
    /\ UNCHANGED <<jobVars, taskVars, imp>>

\* A variant of JobOfUser that looks the job up by its id alone.
JobOfUser_AnyOwner(job_id, user) ==
    {j \in JobIds : j = job_id}

\* jobs.py: get_job, lines 64-66: the rows with the id that the user owns.
JobOfUser(job_id, user) ==
    {j \in JobIds : j = job_id /\ jobs[j].user_id = user}

\* jobs.py: get_job. 401 from get_current_user, 404 when the user owns no
\* job with the id, else the job.
get_job(token, job_id) ==
    /\ LET user == get_current_user(token) IN
       IF user = 0
       THEN resp' = Response("get_job", token, job_id, 401, <<>>)
       ELSE IF JobOfUser(job_id, user) = {}
       THEN resp' = Response("get_job", token, job_id, 404, <<>>)
       ELSE \E j \in JobOfUser(job_id, user) :
               resp' = Response("get_job", token, job_id, 200, <<jobs[j]>>)
    /\ UNCHANGED users
    /\ UNCHANGED <<jobVars, taskVars, imp>>

\* Registration and the requests of the users router and of the public jobs
\* router.
NextApi ==
    \/ \E role \in ALLOWED_ROLES : register(role)
    \/ \E token \in Tokens : list_users(token)
    \/ \E token \in Tokens, u \in 1..NumUsers, role \in ALLOWED_ROLES :
          update_user(token, u, role)
    \/ \E user \in UserIds : create_job(user, "import_homework", 1)
    \/ \E token \in Tokens, job_id \in 1..MaxJobs : get_job(token, job_id)

SpecApi == Init /\ [][NextApi]_vars

(***************************************************************************)
(* Properties of the job runner.                                           *)
(***************************************************************************)

\* The status changes of the lifecycle pending -> running -> {done, failed}.
LifecycleSteps == {<<"pending", "running">>, <<"running", "done">>,
                   <<"running", "failed">>}

\* The step in which worker w sets its job running and invokes the handler.
ClaimedBy(w) == wpc[w] = "fetched" /\ wpc'[w] = "handler"

\* C1: of the workers that fetched the same pending job exactly one sets it
\* running and invokes its handler: a worker does so only while the job is
\* still pending, every other worker finds it claimed and does not process it.
C1_ExclusiveClaim ==
    [][\A w \in Workers :
          ClaimedBy(w) => jobs[wjob[w]].status = "pending"]_vars

\* C2: once a job has left pending its status never becomes pending again,
\* under worker steps and PATCH /internal/jobs/{job_id} calls.
C2_NeverPendingAgain ==
    [][\A j \in JobIds :
          jobs[j].status # "pending" => jobs'[j].status # "pending"]_vars

\* C3: done and failed are terminal: no later step changes the status or the
\* result of a job that is done or failed.
C3_TerminalStatus ==
    [][\A j \in JobIds :
          jobs[j].status \in {"done", "failed"} => jobs'[j] = jobs[j]]_vars

\* C4: every status change made by the worker loop is pending -> running,
\* running -> done or running -> failed.
C4_LifecycleOnly ==
    [][\A j \in JobIds :
          jobs'[j].status # jobs[j].status
             => <<jobs[j].status, jobs'[j].status>> \in LifecycleSteps]_vars

\* A job is done or failed.
Finished(j) == j \in JobIds /\ jobs[j].status \in {"done", "failed"}

\* C5: after a job has failed, every pending job is eventually claimed and
\* brought to done or failed by the fairly scheduled workers.
C5_FailureDoesNotBlock ==
    \A j \in 1..MaxJobs :
        ((j \in JobIds /\ jobs[j].status = "pending"
            /\ \E k \in JobIds : jobs[k].status = "failed")
         ~> Finished(j))

\* C5 witness: a job finished after another job had failed, with every
\* worker back at the top of its loop.
C5_Witness ==
    /\ \E j, k \in JobIds :
          /\ j < k
          /\ jobs[j].status = "failed"
          /\ jobs[j].result.val \in HandlerErrors
          /\ Finished(k)
    /\ \A w \in Workers : wpc[w] = "poll"

\* The step in which worker w leaves the except branch of _process_job.
CaughtBy(w) == wpc[w] = "raised" /\ wpc'[w] # "raised"

\* C6 as stated: the worker that catches a handler error leaves the job
\* failed with a structured error made of a kind and a message.
C6_KindAndMessage ==
    [][\A w \in Workers :
          CaughtBy(w) =>
             /\ jobs'[wjob[w]].status = "failed"
             /\ jobs'[wjob[w]].result.keys = {"kind", "message"}]_vars

\* C6 as amended: the worker that catches a handler error writes status
\* failed and a result whose only key is "error", holding the message of the
\* exception.
C6_ErrorMessageOnly ==
    [][\A w \in Workers :
          CaughtBy(w) =>
             /\ jobs'[wjob[w]].status = "failed"
             /\ jobs'[wjob[w]].result = [keys |-> {"error"}, val |-> wexc[w]]
             /\ wpc'[w] = "poll"]_vars

\* C6 witness: a job failed with the message of a handler's exception.
C6_Witness ==
    \E j \in JobIds :
        /\ jobs[j].status = "failed"
        /\ jobs[j].result.keys = {"error"}
        /\ jobs[j].result.val \in HandlerErrors

(***************************************************************************)
(* Properties of the task store.                                           *)
(***************************************************************************)

\* C7: between requests, every task that has subtasks has the status the
\* Status Aggregator computes from its subtasks' statuses.
C7_StatusIsAggregate ==
    Quiescent =>
       \A t \in TaskIds :
          tasks[t].subtasks # <<>> =>
             tasks[t].status = _compute_task_status(tasks[t].subtasks)

\* C8: no two persisted tasks share the same (child_id, content_hash).
C8_UniqueChildHash ==
    \A t, u \in TaskIds :
       t # u => <<tasks[t].child_id, tasks[t].hash>>
                   # <<tasks[u].child_id, tasks[u].hash>>

\* C9: of two create_task calls for the same key that both found no task and
\* both attempted the insert, one returns "created" and the other returns
\* "duplicate" with the task the first one inserted.
C9_RaceYieldsDuplicate ==
    \A c, d \in Clients :
       (/\ c # d
        /\ cpc[c] = "idle" /\ cpc[d] = "idle"
        /\ d \in cres[c].rivals /\ c \in cres[d].rivals)
       => /\ {cres[c].status, cres[d].status} = {"created", "duplicate"}
          /\ cres[c].task = cres[d].task

\* C10: when the same body is sent to create_task twice in sequence, the
\* first call returning "created", the second call returns "duplicate" and
\* exactly one task is stored for the key.
C10_ImportTwice ==
    (prev.op = "create_task" /\ prev.repeat)
    => /\ prev.outcome = "duplicate"
       /\ Cardinality(Existing(prev.payload)) = 1

\* C10 witness: a second create_task of a body with subtasks has returned
\* "duplicate".
C10_Witness ==
    /\ prev.op = "create_task"
    /\ prev.repeat
    /\ prev.outcome = "duplicate"
    /\ prev.payload.subtasks # <<>>
    /\ Cardinality(Existing(prev.payload)) = 1

\* The subtask rows of the task a merge is about to append to, and after.
MergeSteps(c) == cpc[c] = "append" /\ cpc'[c] = "status"

\* C11: when create_task finds a task whose subtask titles are all among
\* the incoming ones, the task's rows afterwards are the old rows, unchanged
\* in title, status, position and parent reaction, followed by one row per
\* incoming subtask whose title was absent, in input order, at the positions
\* max_existing + 1, max_existing + 2, ...; the outcome is "updated".
C11_MergeAppendsOnlyNew ==
    [][\A c \in Clients :
         LET t == creq[c].task
             old == tasks[t].subtasks
             incoming == creq[c].payload.subtasks
             old_titles == {old[i].title : i \in DOMAIN old}
             Absent(title) == title \notin old_titles
             net_new == SelectSeq(incoming, Absent)
             max_existing == Max({old[i].position : i \in DOMAIN old})
         IN (MergeSteps(c) /\ old_titles \subseteq Range(incoming))
            => LET new == tasks'[t].subtasks IN
               /\ Len(new) = Len(old) + Len(net_new)
               /\ \A i \in DOMAIN old : new[i] = old[i]
               /\ \A k \in DOMAIN net_new :
                     /\ new[Len(old) + k].title = net_new[k]
                     /\ new[Len(old) + k].position = max_existing + k
               /\ creq'[c].outcome = "updated"]_vars

\* C11 witness: a merge has returned "updated" for a task whose first
\* subtask had been advanced and given a reaction before, and still is.
C11_Witness ==
    \E c \in Clients :
       /\ cpc[c] = "idle"
       /\ cres[c].status = "updated"
       /\ prev.op = "create_task" /\ prev.outcome = "updated"
       /\ LET sub == tasks[cres[c].task].subtasks IN
          /\ Len(sub) >= 2
          /\ sub[1].status = "done"
          /\ sub[1].parent_reaction = "star"
          /\ sub[Len(sub)].status = "todo"
          /\ sub[Len(sub)].position = Len(sub)

\* C12: within every task the subtask positions are 1-based and pairwise
\* distinct, whatever the interleaving of create_task, create_subtask and
\* delete_subtask.
C12_PositionsDistinct ==
    \A t \in TaskIds :
       LET sub == tasks[t].subtasks IN
       /\ \A i \in DOMAIN sub : sub[i].position >= 1
       /\ \A i, j \in DOMAIN sub : i # j => sub[i].position # sub[j].position

\* The step in which worker w ends _process_job for a job without handler.
DispatchFails(w) ==
    /\ wpc[w] = "fetched"
    /\ jobs[wjob[w]].type \notin JOB_HANDLERS
    /\ wpc'[w] # "fetched"

\* C15 as stated: a claimed job whose type has no handler ends failed with
\* the error code unknown_job_type in its result, no handler being invoked.
C15_UnknownJobTypeCode ==
    [][\A w \in Workers :
          DispatchFails(w)
          => /\ wpc'[w] = "poll"
             /\ jobs'[wjob[w]].status = "failed"
             /\ jobs'[wjob[w]].result.val = "unknown_job_type"]_vars

\* C15 amended: such a job ends failed with the result
\* {"error": "Unknown job type"}; it is never set running, no handler is
\* invoked for it, and it stays failed with that result.
C15_UnknownJobTypeMessage ==
    [][/\ \A w \in Workers :
            DispatchFails(w)
            => /\ wpc'[w] = "poll"
               /\ jobs'[wjob[w]].status = "failed"
               /\ jobs'[wjob[w]].result = ResultOf("error", "Unknown job type")
       /\ \A j \in JobIds :
            jobs[j].type \notin JOB_HANDLERS
            => /\ jobs[j].status \in {"pending", "failed"}
               /\ jobs[j].status = "failed" => jobs'[j] = jobs[j]]_vars

\* C15 witness: a job of a type without handler has failed at dispatch and
\* its worker polls again.
C15_Witness ==
    \E j \in JobIds :
       /\ jobs[j].type \notin JOB_HANDLERS
       /\ jobs[j].status = "failed"
       /\ jobs[j].result = ResultOf("error", "Unknown job type")
       /\ \A w \in Workers : wpc[w] = "poll"

\* The step in which worker w takes up the job it fetched: it sets the job
\* running, or fails it at dispatch.
TakesUp(w) == wpc[w] = "fetched" /\ wpc'[w] # "fetched"

\* C16: whenever a worker takes up a job, no pending job has an earlier
\* created_at; with a single worker, jobs are started in creation order: no
\* job created before the one taken up is still pending.
C16_OldestFirst ==
    [][\A w \in Workers :
          TakesUp(w)
          => /\ \A k \in PendingJobs :
                   jobs[wjob[w]].created_at <= jobs[k].created_at
             /\ \A k \in PendingJobs : wjob[w] <= k]_vars

\* The collections of subtask statuses, and subtask rows carrying them.
StatusLists == UNION {[1..n -> TASK_STATUS_VALUES] : n \in 0..MaxStatuses}
RowsWith(statuses) ==
    [i \in DOMAIN statuses |->
        [NewSubtask(TitleAt(i), i) EXCEPT !.status = statuses[i]]]

\* The aggregate the specification prescribes, case by case.
Aggregate(statuses) ==
    IF Len(statuses) = 0 THEN "todo"
    ELSE IF \A i \in DOMAIN statuses : statuses[i] = "checked"
         THEN "checked"
    ELSE IF \A i \in DOMAIN statuses : statuses[i] \in {"done", "checked"}
         THEN "done"
    ELSE IF \E i \in DOMAIN statuses : statuses[i] \in {"in_progress", "done"}
         THEN "in_progress"
    ELSE "todo"

\* C17: for every collection of subtask statuses _compute_task_status
\* returns todo if it is empty, else checked if all are checked, else done
\* if all are done or checked, else in_progress if any is in_progress or
\* done, else todo; and so does every recomputation a handler has stored
\* last (update_subtask, start_subtask, complete_subtask, check_subtask).
C17_AggregateCases ==
    /\ \A statuses \in StatusLists :
          _compute_task_status(RowsWith(statuses)) = Aggregate(statuses)
    /\ \A t \in TaskIds :
          tasks[t] = WithStatus(tasks[t])
          => tasks[t].status
                = Aggregate([i \in DOMAIN tasks[t].subtasks |->
                                tasks[t].subtasks[i].status])

\* C17 witness: a handler has recomputed the status of a task whose
\* subtasks are done and checked, and stored done.
C17_Witness ==
    /\ calls = MaxSeqCalls
    /\ \E t \in TaskIds :
          /\ Len(tasks[t].subtasks) = 2
          /\ tasks[t].subtasks[1].status = "done"
          /\ tasks[t].subtasks[2].status = "checked"
          /\ tasks[t].status = "done"

(***************************************************************************)
(* Properties of the import handler.                                       *)
(***************************************************************************)
\* A block the filter retains whose subject name resolves to no subject id.
Unresolved(block) ==
    /\ has_homework(block)
    /\ \A name \in normalize_subject(block.name) :
          get_subject_id_by_name(name) = {}

\* A block the loop body handles without raising: it is dropped, or it is
\* complete and its subject resolves.
Sound(block) ==
    \/ ~ has_homework(block)
    \/ /\ block.lacks = "none"
       /\ \A name \in normalize_subject(block.name) :
             get_subject_id_by_name(name) # {}

\* The blocks of the response that the filter retains and that resolve.
Upsertable(blocks) == {i \in DOMAIN blocks : has_homework(blocks[i])
                                               /\ Sound(blocks[i])}

C18_NoTextFails ==
    (imp.pc = "done" /\ imp.raw_text = "")
    => /\ imp.outcome = "raised"
       /\ ~ imp.called
       /\ tasks = imp.before
       /\ jobs[imp.id].status \in {"running", "failed"}
       /\ wpc[imp.w] # "raised" => jobs[imp.id].status = "failed"

\* C18 witness: a job without text, given to the handler as a Job object,
\* was failed by the text check and is recorded as failed.
C18_Witness ==
    /\ imp.pc = "done"
    /\ imp.raw_text = ""
    /\ imp.job = "object"
    /\ imp.error = "No homework content provided"
    /\ ~ imp.called
    /\ jobs[imp.id].status = "failed"
    /\ jobs[imp.id].result = ErrorResult("No homework content provided")

\* The block has exactly one subtask and that subtask's lowercased detail
\* contains one of the negation phrases.
OnlyNegation(block) ==
    /\ Len(block.task.subtasks) = 1
    /\ \E phrase \in NegationPhrases :
          Contains(lower(block.task.subtasks[1].detail), phrase)

\* A pass of the handler's loop over the block at imp.idx.
LoopPass == imp.pc = "loop" /\ imp.idx <= Len(imp.blocks) /\ imp' # imp

\* The pass went on to the next block without a create_task call.
Dropped ==
    /\ imp'.pc = "loop"
    /\ imp'.idx = imp.idx + 1
    /\ imp'.results = imp.results

\* C19: a pass of the loop drops its block if and only if the block has
\* exactly one subtask whose lowercased detail contains a negation phrase;
\* a block with zero or with two or more subtasks is never dropped, and a
\* dropped block leaves the stored tasks as they are.
C19_FilterDropsOnlyNegation ==
    [][LoopPass =>
         LET block == imp.blocks[imp.idx] IN
         /\ Dropped <=> OnlyNegation(block)
         /\ Len(block.task.subtasks) # 1 => ~ Dropped
         /\ Dropped => tasks' = tasks]_vars

\* C19 witness: the handler returned from a response of two blocks, one
\* with the single subtask "ДЗ нет" and one with two subtasks of which the
\* first is "ДЗ нет"; only the second block reached create_task.
C19_Witness ==
    /\ imp.pc = "done"
    /\ imp.outcome = "returned"
    /\ Len(imp.blocks) = 2
    /\ OnlyNegation(imp.blocks[1])
    /\ Len(imp.blocks[2].task.subtasks) = 2
    /\ imp.blocks[2].task.subtasks[1].detail = D_none
    /\ Len(imp.results) = 1
    /\ Len(tasks) = Len(imp.before) + 1

C21_GetJobOwnerOnly ==
    [][(resp' # resp /\ resp'.op = "get_job") =>
         LET user == get_current_user(resp'.token)
             job_id == resp'.arg
             owned == job_id \in JobIds /\ jobs[job_id].user_id = user
         IN /\ jobs' = jobs
            /\ user # 0 =>
                 /\ resp'.status = 200 <=> owned
                 /\ resp'.status = 404 <=> ~ owned
                 /\ owned => resp'.body = <<jobs[job_id]>>
                 /\ ~ owned => resp'.body = <<>>]_vars

\* C21 witness: a user asked for an existing job of another user and got
\* 404 without a body.
C21_Witness ==
    /\ resp.op = "get_job"
    /\ resp.token \in UserIds
    /\ resp.arg \in JobIds
    /\ jobs[resp.arg].user_id # resp.token
    /\ resp.status = 404
    /\ resp.body = <<>>

\* C22: a list_users request with credentials that do not validate is
\* answered 401, one by an authenticated child or parent 403, and only an
\* admin gets 200 with the list of users; a rejected request changes
\* nothing that is stored.
C22_ListUsersAdminOnly ==
    [][(resp' # resp /\ resp'.op = "list_users") =>
         LET token == resp'.token IN
         /\ token \notin UserIds => resp'.status = 401
         /\ (token \in UserIds /\ users[token] \in {"child", "parent"})
               => resp'.status = 403
         /\ resp'.status = 200 <=> (token \in UserIds /\ users[token] = "admin")
         /\ resp'.status = 200 => resp'.body = users
         /\ resp'.status # 200 =>
               /\ resp'.body = <<>>
               /\ UNCHANGED <<users, jobVars, taskVars, imp>>]_vars

\* C22 witness: a registered parent asked for the list of users, next to a
\* registered admin, and got 403 without a body.
C22_Witness ==
    /\ resp.op = "list_users"
    /\ resp.token \in UserIds
    /\ users[resp.token] = "parent"
    /\ \E u \in UserIds : users[u] = "admin"
    /\ resp.status = 403
    /\ resp.body = <<>>

(***************************************************************************)
(* Further properties of the task router.                                  *)
(***************************************************************************)
\* C23: whenever create_task commits an insert or an append of subtasks to
\* a task whose stored status was the aggregate of its subtasks, the status
\* stored by that same commit is the aggregate of the subtasks it stores:
\* no stored state holds the new subtasks with a status not yet recomputed.
C23_SubtasksAndStatusInOneCommit ==
    [][\A c \in Clients :
         (cpc[c] \in {"insert", "append"} /\ cpc'[c] = "status") =>
            LET t == creq'[c].task IN
            (t \in TaskIds =>
                tasks[t].status = _compute_task_status(tasks[t].subtasks))
            => tasks'[t].status = _compute_task_status(tasks'[t].subtasks)]_vars

\* C24: every stored task's hash is make_task_hash of its subject, date and
\* title, so the lookup by (child, subject, date, title) and a lookup by
\* (child, hash) find the same tasks.
C24_HashIsKey ==
    \A t \in TaskIds :
       /\ tasks[t].hash = make_task_hash(tasks[t].subject_id, tasks[t].date,
                                         tasks[t].title)
       /\ Existing(tasks[t]) = get_task_by_hash(tasks[t].child_id,
                                                tasks[t].hash)

\* C25: a merge appends exactly one row for each distinct incoming title
\* that the existing task does not hold, also when the incoming list names
\* the title more than once.
C25_MergeOncePerTitle ==
    [][\A c \in Clients :
         MergeSteps(c) =>
            LET t == creq[c].task
                old == tasks[t].subtasks
                new == tasks'[t].subtasks
                incoming == creq[c].payload.subtasks
                net_new == Range(incoming) \ {old[i].title : i \in DOMAIN old}
            IN /\ Len(new) = Len(old) + Cardinality(net_new)
               /\ \A title \in net_new :
                     Cardinality({i \in DOMAIN new : new[i].title = title}) = 1]_vars

\* The titles of the subtasks task t holds.
TitlesOf(t) == {tasks[t].subtasks[i].title : i \in DOMAIN tasks[t].subtasks}

\* C26: a create_task call that returns "duplicate" found a stored task
\* holding every incoming title and leaves the tasks table, with every
\* task's status, hash and subtasks, as it was; and a call that goes on to
\* insert or append did not find such a task.
C26_DuplicateChangesNothing ==
    [][/\ (prev' # prev /\ prev'.op = "create_task"
                       /\ prev'.outcome = "duplicate")
          => /\ tasks' = tasks
             /\ \E t \in Existing(prev'.payload) :
                   Range(prev'.payload.subtasks) \subseteq TitlesOf(t)
       /\ \A c \in Clients :
             (cpc[c] = "idle" /\ cpc'[c] \in {"insert", "append"})
             => \A t \in Existing(creq'[c].payload) :
                   ~ (Range(creq'[c].payload.subtasks) \subseteq TitlesOf(t))]_vars

\* C26 witness: create_task has returned "duplicate" for a stored task with
\* a done subtask, the body naming one of its titles.
C26_Witness ==
    /\ prev.op = "create_task"
    /\ prev.outcome = "duplicate"
    /\ ~ prev.repeat
    /\ prev.payload.subtasks # <<>>
    /\ \E t \in Existing(prev.payload) :
          /\ tasks[t].status = "done"
          /\ \E i \in DOMAIN tasks[t].subtasks :
                tasks[t].subtasks[i].status = "done"

(***************************************************************************)
(* Further properties of the job runner.                                   *)
(***************************************************************************)
RunningJobs == {j \in JobIds : jobs[j].status = "running"}

\* C27: with a single worker, at most one job is running, the running job
\* is the one the worker is processing, and while the worker polls or holds
\* a job it has just fetched no job is running: the worker fetches the next
\* job only after the current one is done or failed.
C27_OneJobAtATime ==
    /\ Cardinality(RunningJobs) <= 1
    /\ \A j \in RunningJobs :
          /\ wjob[1] = j
          /\ wpc[1] \in {"handler", "returned", "raised"}

\* C27 witness: the single worker runs the handler for the second job after
\* the first one was finished.
C27_Witness ==
    /\ Len(jobs) = 2
    /\ jobs[1].status \in {"done", "failed"}
    /\ jobs[2].status = "running"
    /\ wjob[1] = 2
    /\ wpc[1] = "handler"

\* Worker w has set the job it holds running itself and is processing it.
Processing(w) == wjob[w] # 0 /\ wpc[w] \in {"handler", "returned", "raised"}

\* A running job that no live worker process is processing.
Abandoned(j) ==
    /\ jobs[j].status = "running"
    /\ \A w \in Workers : ~ (Processing(w) /\ wjob[w] = j)

\* C28: a worker takes up only a job that is pending, never one that is
\* running; and a running job that no live worker set running itself is
\* never changed and stays abandoned.
C28_RunningJobLeftAlone ==
    [][/\ \A w \in Workers :
             (/\ wpc[w] = "fetched"
              /\ \/ wpc'[w] = "handler"
                 \/ jobs'[wjob[w]] # jobs[wjob[w]])
                => jobs[wjob[w]].status # "running"
       /\ \A j \in JobIds :
             Abandoned(j) => jobs'[j] = jobs[j]]_vars

(* The order of the statuses. *)

\* The place of a status in the order todo < in_progress < done < checked.
StatusOrder(s) ==
    CASE s = "todo" -> 0
      [] s = "in_progress" -> 1
      [] s = "done" -> 2
      [] s = "checked" -> 3

\* The step is start_subtask, complete_subtask or check_subtask on subtask
\* i of task t, and it moves that subtask up in the order.
Advances(t, i) ==
    /\ \/ start_subtask(t, i)
       \/ complete_subtask(t, i)
       \/ check_subtask(t, i)
    /\ StatusOrder(tasks[t].subtasks[i].status)
          < StatusOrder(tasks'[t].subtasks[i].status)

\* C29: a step of start_subtask, complete_subtask or check_subtask that
\* moves one subtask up in the order todo < in_progress < done < checked
\* leaves the status derived from the task's subtasks where it was or moves
\* it up in that order, never down.
C29_AdvanceNeverLowersTask ==
    [][\A t \in TaskIds : \A i \in DOMAIN tasks[t].subtasks :
          Advances(t, i) =>
             StatusOrder(_compute_task_status(tasks[t].subtasks))
                <= StatusOrder(_compute_task_status(tasks'[t].subtasks))]_vars

(* Coherence of a job's status and result. *)

\* The error descriptions the worker stores: the message for a type without
\* a handler, or str(e) of the exception the handler raised.
ErrorDescriptions == {"Unknown job type"} \cup HandlerErrors

\* C30: with job submission and the worker loops as the only writers, in
\* every reachable state a pending or running job has no result, a done job
\* has the result {"result": <the handler's return value>}, and a failed job
\* has a result {"error": <an error description>}.
C30_StatusResultCoherent ==
    \A j \in JobIds :
       /\ jobs[j].status \in {"pending", "running"} => jobs[j].result = NoResult
       /\ jobs[j].status = "done" =>
             jobs[j].result = ResultOf("result", HandlerValue)
       /\ jobs[j].status = "failed" =>
             /\ jobs[j].result.keys = {"error"}
             /\ jobs[j].result.val \in ErrorDescriptions

\* The worker loops have finished two jobs, one as done and one as failed.
C30_Witness ==
    \E j, k \in JobIds :
       /\ jobs[j].status = "done"
       /\ jobs[j].result.keys = {"result"}
       /\ jobs[k].status = "failed"
       /\ jobs[k].result.keys = {"error"}
====
